---- MODULE Spec2Model ----
(***************************************************************************)
(* dict_dash.py: the "Dictionary Dash" word-ladder solver.                 *)
(*                                                                         *)
(* One Python process imports the module (the result cache of              *)
(* find_similar_words starts empty) and calls main any number of times;    *)
(* every call of main parses a dictionary and a tuple of query pairs,      *)
(* builds the "words by indexed letter" structure (wil) and runs           *)
(* find_shortest_solution once per pair.  The cache is module-global and   *)
(* outlives every call.                                                    *)
(*                                                                         *)
(* A word is a sequence of letters; Python's position i (from 0) is the    *)
(* element i + 1 of the sequence.                                          *)
(***************************************************************************)
EXTENDS Integers, Sequences, FiniteSets, TLC

\* The letters words are made of.
Letters == {"a", "b"}

\* The word lengths a dictionary may have (all words of one input share one).
WordLens == {1, 2}

\* The number of find_shortest_solution calls one process makes.
MaxQueries == 2

WordsOfLen(n) == [1..n -> Letters]

AllWords == UNION {WordsOfLen(n) : n \in WordLens}

\* All sequences over S of length at most n.
SeqsUpTo(S, n) == UNION {[1..k -> S] : k \in 0..n}

VARIABLES
    words,            \* main: the frozenset parse_input returned
    pairs,            \* main: the tuple of (start, end) pairs parse_input returned
    wil,              \* main: the structure build_words_by_indexed_letter returned
    failed,           \* main: the flag main returns
    stdout,           \* the lines main printed to stdout
    stderr,           \* the lines main printed to stderr
    pair_no,          \* main: how many pairs the for loop has taken
    pc,               \* where the process is
    results_by_args,  \* find_similar_words._results_by_args, the cache
    start_word,       \* find_shortest_solution: its arguments
    end_word,
    used_words,       \* find_shortest_solution: the set used_words
    leaf_nodes,       \* find_shortest_solution: the list leaf_nodes
    next_leaf_nodes,  \* find_shortest_solution: the list next_leaf_nodes
    gen,              \* the generator generate_next_leaf_nodes: where it stands
    outcome,          \* how the last call of find_shortest_solution ended
    rounds,           \* counts the passes of the while loop of the current call
    queries           \* counts the calls of find_shortest_solution of the process

vars == <<words, pairs, wil, failed, stdout, stderr, pair_no, pc, results_by_args,
          start_word, end_word, used_words, leaf_nodes, next_leaf_nodes, gen,
          outcome, rounds, queries>>

-----------------------------------------------------------------------------
(* Node = namedtuple('Node', ('value', 'parent')).  parent is None, written  *)
(* <<>>, or a node n, written <<n>>.                                         *)

None == <<>>

Node(value, parent) == [value |-> value, parent |-> parent]

-----------------------------------------------------------------------------------------------------------------------------------------------------
(* build_words_by_indexed_letter.  wil is a defaultdict of defaultdicts of   *)
(* sets: a function from the positions that were entered to functions from   *)
(* the letters that were entered to sets of words.                           *)

\* wil[i][letter], the value read.  A missing key of a defaultdict reads as
\* the default: an empty inner dict, an empty set.
WilGet(w, i, letter) ==
    IF i \in DOMAIN w /\ letter \in DOMAIN w[i] THEN w[i][letter] ELSE {}

\* wil[i][letter], the effect: reading a missing key of a defaultdict enters
\* the key with the default value.
WilTouch(w, i, letter) ==
    LET inner == IF i \in DOMAIN w THEN w[i] ELSE <<>>
        inner2 == IF letter \in DOMAIN inner THEN inner ELSE (letter :> {}) @@ inner
    IN  (i :> inner2) @@ w

RECURSIVE WilTouchAll(_, _, _)
WilTouchAll(w, word, indexes) ==
    IF indexes = {} THEN w
    ELSE LET i == CHOOSE j \in indexes : TRUE
         IN  WilTouchAll(WilTouch(w, i, word[i + 1]), word, indexes \ {i})

\* A slip the construction could hold: the word is entered under its first
\* letter at every position, wil[i][word[0]].add(word).
WilAddUnderFirstLetter(w, i, letter, word) ==
    LET t == WilTouch(w, i, word[1])
    IN  [t EXCEPT ![i][word[1]] = @ \cup {word}]

\* wil[i][letter].add(word).
WilAdd(w, i, letter, word) ==
    LET t == WilTouch(w, i, letter)
    IN  [t EXCEPT ![i][letter] = @ \cup {word}]

\* for i, letter in enumerate(word): wil[i][letter].add(word), from position
\* i on.
RECURSIVE AddWord(_, _, _)
AddWord(w, word, i) ==
    IF i >= Len(word) THEN w
    ELSE AddWord(WilAdd(w, i, word[i + 1], word), word, i + 1)

\* for word in words: ..., for the words ws still to be taken.
RECURSIVE BuildFrom(_, _)
BuildFrom(ws, w) ==
    IF ws = {} THEN w
    ELSE LET word == CHOOSE v \in ws : TRUE
         IN  BuildFrom(ws \ {word}, AddWord(w, word, 0))

build_words_by_indexed_letter(ws) == BuildFrom(ws, <<>>)

RECURSIVE Intersection(_)
Intersection(sets) ==
    IF Cardinality(sets) = 1 THEN CHOOSE s \in sets : TRUE
    ELSE LET s == CHOOSE t \in sets : TRUE
         IN  s \cap Intersection(sets \ {s})

-----------------------------------------------------------------------------
(* find_similar_words and its decorator, cache.                              *)

\* A slip the body could hold: the sets are looked up under the letter at
\* the mutation position, wil[i][word[index]], not under word[i].
FindSimilarWordsWrongLetter(word, index, w) ==
    LET indexes == {i \in 0..(Len(word) - 1) : i # index}
    IN  IF indexes = {}
        THEN [raised |-> TRUE, value |-> {}, wil |-> w]
        ELSE [raised |-> FALSE,
              value |-> Intersection({WilGet(w, i, word[index + 1]) : i \in indexes})
                            \ {word},
              wil |-> WilTouchAll(w, word, indexes)]

\* A slip the body could hold: the word itself is not taken out, "- {word}"
\* is missing.
FindSimilarWordsKeepsWord(word, index, w) ==
    LET indexes == {i \in 0..(Len(word) - 1) : i # index}
    IN  IF indexes = {}
        THEN [raised |-> TRUE, value |-> {}, wil |-> w]
        ELSE [raised |-> FALSE,
              value |-> Intersection({WilGet(w, i, word[i + 1]) : i \in indexes}),
              wil |-> WilTouchAll(w, word, indexes)]

\* The body of find_similar_words, uncached, on the structure w.  It answers
\* raised (set.intersection() called without an argument raises TypeError),
\* the set returned, and w after the reads (see WilTouch).
FindSimilarWordsBody(word, index, w) ==
    LET indexes == {i \in 0..(Len(word) - 1) : i # index}
    IN  IF indexes = {}
        THEN [raised |-> TRUE, value |-> {}, wil |-> w]
        ELSE [raised |-> FALSE,
              value |-> Intersection({WilGet(w, i, word[i + 1]) : i \in indexes})
                            \ {word},
              wil |-> WilTouchAll(w, word, indexes)]

\* The key under which cache stores a result: cache_key = args.  Every call
\* passes wil by keyword (wil=wil), so args is (word, index) and the key does
\* not hold the structure.
CacheKey(word, index, w) == <<word, index>>

\* A slip the decorator could hold: what it stores is not what it returns
\* (as when the result is a lazy iterator, which the first caller exhausts):
\* a later hit answers the empty set.
FindSimilarWordsStoresExhausted(word, index, w, c) ==
    LET cache_key == CacheKey(word, index, w)
    IN  IF cache_key \in DOMAIN c
        THEN [raised |-> FALSE, value |-> c[cache_key], wil |-> w, cache |-> c]
        ELSE LET r == FindSimilarWordsBody(word, index, w)
             IN  [raised |-> r.raised, value |-> r.value, wil |-> r.wil,
                  cache |-> IF r.raised THEN c ELSE (cache_key :> {}) @@ c]

\* find_similar_words as decorated: wrapped(word, index, wil=w) with the cache
\* c.  It answers raised, the set returned, and the structure and the cache
\* after the call.  A result that raised is not stored.
find_similar_words(word, index, w, c) ==
    LET cache_key == CacheKey(word, index, w)
    IN  IF cache_key \in DOMAIN c
        THEN [raised |-> FALSE, value |-> c[cache_key], wil |-> w, cache |-> c]
        ELSE LET r == FindSimilarWordsBody(word, index, w)
             IN  [raised |-> r.raised, value |-> r.value, wil |-> r.wil,
                  cache |-> IF r.raised THEN c ELSE (cache_key :> r.value) @@ c]

-----------------------------------------------------------------------------
(* generate_next_leaf_nodes, a generator.  Between two of its yields it      *)
(* stands inside the iteration of one set of similar words:                  *)
(*   gen.n    the index in nodes of the node whose words it is producing,    *)
(*   gen.i    the position the next call of find_similar_words will take,    *)
(*   gen.rem  the similar words of the current set not yet produced.         *)
(* The filter is lazy: a word is tested against used_words when it is        *)
(* drawn, so a word added to used_words during the round is filtered too.    *)
(* A word of gen.rem that is in used_words is skipped whenever it is drawn   *)
(* (used_words only grows), so the words still to be yielded from the        *)
(* current set are gen.rem \ used_words, in the order the set iterates,      *)
(* which Python leaves open.                                                 *)

GenStart == [n |-> 1, i |-> 0, rem |-> {}]

\* Runs the generator from g until it has a word to yield ("yield"), it is
\* exhausted ("stop") or find_similar_words raised ("error"); answers where it
\* then stands, with the structure and the cache after the calls it made.
RECURSIVE GenAdvance(_, _, _, _, _)
GenAdvance(g, nodes, used, w, c) ==
    IF g.rem \ used # {}
    THEN [kind |-> "yield", gen |-> g, wil |-> w, cache |-> c]
    ELSE IF g.n > Len(nodes)
    THEN [kind |-> "stop", gen |-> g, wil |-> w, cache |-> c]
    ELSE IF g.i >= Len(nodes[g.n].value)
    THEN GenAdvance([n |-> g.n + 1, i |-> 0, rem |-> {}], nodes, used, w, c)
    ELSE LET r == find_similar_words(nodes[g.n].value, g.i, w, c)
         IN  IF r.raised
             THEN [kind |-> "error", gen |-> g, wil |-> r.wil, cache |-> r.cache]
             ELSE GenAdvance([n |-> g.n, i |-> g.i + 1, rem |-> r.value],
                             nodes, used, r.wil, r.cache)

-----------------------------------------------------------------------------
(* retrace_solution, and the reversal find_shortest_solution applies to it.  *)

RECURSIVE retrace_solution(_)
retrace_solution(node) ==
    IF node.parent = None THEN <<node.value>>
    ELSE <<node.value>> \o retrace_solution(node.parent[1])

\* A slip find_shortest_solution could hold: the retraced words are returned
\* as collected, tuple(retrace_solution(node)), end word first.
NotReversed(s) == s

reversed(s) == [k \in 1..Len(s) |-> s[Len(s) + 1 - k]]

-----------------------------------------------------------------------------
(* find_shortest_solution as one call: what the call answers on the          *)
(* structure w with the cache c.  The actions below take the same steps one  *)
(* at a time.  Where a set of similar words holds several unused words the   *)
(* call draws them in one fixed order; the kind of the outcome and the       *)
(* length of the solution are what the claims read.                          *)

RECURSIVE SearchFrom(_, _, _, _, _, _, _, _)
SearchFrom(start, end, nodes, next, used, g, w, c) ==
    LET a == GenAdvance(g, nodes, used, w, c)
    IN  IF a.kind = "error"
        THEN [kind |-> "TypeError", solution |-> <<>>, wil |-> a.wil,
              cache |-> a.cache]
        ELSE IF a.kind = "stop"
        THEN IF next # <<>>
             THEN SearchFrom(start, end, next, <<>>, used, GenStart, a.wil, a.cache)
             ELSE [kind |-> "ValueError", solution |-> <<>>, wil |-> a.wil,
                   cache |-> a.cache]
        ELSE LET sw == CHOOSE x \in a.gen.rem \ used : TRUE
                 node == Node(sw, <<nodes[a.gen.n]>>)
             IN  IF sw = end
                 THEN [kind |-> "solution",
                       solution |-> reversed(retrace_solution(node)),
                       wil |-> a.wil, cache |-> a.cache]
                 ELSE SearchFrom(start, end, nodes, Append(next, node),
                                 used \cup {sw},
                                 [a.gen EXCEPT !.rem = @ \ {sw}], a.wil, a.cache)

find_shortest_solution(start, end, w, c) ==
    SearchFrom(start, end, <<Node(start, None)>>, <<>>, {start}, GenStart, w, c)

-----------------------------------------------------------------------------
(* The state machine.                                                        *)
(* pc: "idle"     no call of main is running;                                *)
(*     "main"     main stands at its for loop, between two pairs;            *)
(*     "search"   find_shortest_solution stands at its for loop, about to    *)
(*                ask the generator for the next node;                       *)
(*     "returned" find_shortest_solution returned, main has the solution;    *)
(*     "raised"   find_shortest_solution raised ValueError, main caught it;  *)
(*     "crashed"  a TypeError left main, which catches ValueError only.      *)

NoOutcome == [kind |-> "none", solution |-> <<>>, args |-> <<>>]

Init ==
    /\ words = {}
    /\ pairs = <<>>
    /\ wil = <<>>
    /\ failed = FALSE
    /\ stdout = <<>>
    /\ stderr = <<>>
    /\ pair_no = 0
    /\ pc = "idle"
    /\ results_by_args = <<>>
    /\ start_word = <<>>
    /\ end_word = <<>>
    /\ used_words = {}
    /\ leaf_nodes = <<>>
    /\ next_leaf_nodes = <<>>
    /\ gen = GenStart
    /\ outcome = NoOutcome
    /\ rounds = 0
    /\ queries = 0

\* The locals of find_shortest_solution, which die with the call.
SearchLocalsCleared ==
    /\ start_word' = <<>>
    /\ end_word' = <<>>
    /\ used_words' = {}
    /\ leaf_nodes' = <<>>
    /\ next_leaf_nodes' = <<>>
    /\ gen' = GenStart
    /\ outcome' = NoOutcome
    /\ rounds' = 0

\* main, up to its for loop: parse_input, build_words_by_indexed_letter,
\* failed = False.  The caller hands in fresh streams.
Main(ws, ps) ==
    /\ pc = "idle"
    /\ queries + Len(ps) <= MaxQueries
    /\ words' = ws
    /\ pairs' = ps
    /\ wil' = build_words_by_indexed_letter(ws)
    /\ failed' = FALSE
    /\ stdout' = <<>>
    /\ stderr' = <<>>
    /\ pair_no' = 0
    /\ pc' = "main"
    /\ UNCHANGED <<results_by_args, start_word, end_word, used_words, leaf_nodes,
                   next_leaf_nodes, gen, outcome, rounds, queries>>

\* A slip find_shortest_solution could hold: used_words starts empty,
\* used_words = set(), so the start word is not marked as used.
CallForgetsStartWord ==
    /\ pc = "main"
    /\ pair_no < Len(pairs)
    /\ pair_no' = pair_no + 1
    /\ start_word' = pairs[pair_no + 1][1]
    /\ end_word' = pairs[pair_no + 1][2]
    /\ used_words' = {}
    /\ leaf_nodes' = <<Node(pairs[pair_no + 1][1], None)>>
    /\ next_leaf_nodes' = <<>>
    /\ gen' = GenStart
    /\ outcome' = NoOutcome
    /\ rounds' = 1
    /\ queries' = queries + 1
    /\ pc' = "search"
    /\ UNCHANGED <<words, pairs, wil, failed, stdout, stderr, results_by_args>>

\* main takes the next pair and calls find_shortest_solution(*pair, wil=wil),
\* which runs to its first for loop.
Call ==
    /\ pc = "main"
    /\ pair_no < Len(pairs)
    /\ pair_no' = pair_no + 1
    /\ start_word' = pairs[pair_no + 1][1]
    /\ end_word' = pairs[pair_no + 1][2]
    /\ used_words' = {pairs[pair_no + 1][1]}
    /\ leaf_nodes' = <<Node(pairs[pair_no + 1][1], None)>>
    /\ next_leaf_nodes' = <<>>
    /\ gen' = GenStart
    /\ outcome' = NoOutcome
    /\ rounds' = 1
    /\ queries' = queries + 1
    /\ pc' = "search"
    /\ UNCHANGED <<words, pairs, wil, failed, stdout, stderr, results_by_args>>

\* What the generator does when the for loop asks it for the next node.
Advance == GenAdvance(gen, leaf_nodes, used_words, wil, results_by_args)

\* The generator yields a node that is not the end word: the else branch.
Keep ==
    /\ pc = "search"
    /\ LET a == Advance
       IN  /\ a.kind = "yield"
           /\ \E sw \in a.gen.rem \ used_words :
                 /\ sw # end_word
                 /\ next_leaf_nodes' =
                        Append(next_leaf_nodes, Node(sw, <<leaf_nodes[a.gen.n]>>))
                 /\ used_words' = used_words \cup {sw}
                 /\ gen' = [a.gen EXCEPT !.rem = @ \ {sw}]
           /\ wil' = a.wil
           /\ results_by_args' = a.cache
    /\ UNCHANGED <<words, pairs, failed, stdout, stderr, pair_no, pc, start_word,
                   end_word, leaf_nodes, outcome, rounds, queries>>

\* The generator yields a node of the end word: the solution is returned.
Found ==
    /\ pc = "search"
    /\ LET a == Advance
       IN  /\ a.kind = "yield"
           /\ \E sw \in a.gen.rem \ used_words :
                 /\ sw = end_word
                 /\ outcome' =
                        [kind |-> "solution",
                         solution |-> reversed(retrace_solution(
                                          Node(sw, <<leaf_nodes[a.gen.n]>>))),
                         args |-> <<>>]
                 /\ gen' = [a.gen EXCEPT !.rem = @ \ {sw}]
           /\ wil' = a.wil
           /\ results_by_args' = a.cache
    /\ pc' = "returned"
    /\ UNCHANGED <<words, pairs, failed, stdout, stderr, pair_no, start_word,
                   end_word, used_words, leaf_nodes, next_leaf_nodes, rounds,
                   queries>>

\* The generator is exhausted and the round kept nodes: the next round.
NextRound ==
    /\ pc = "search"
    /\ next_leaf_nodes # <<>>
    /\ LET a == Advance
       IN  /\ a.kind = "stop"
           /\ wil' = a.wil
           /\ results_by_args' = a.cache
    /\ leaf_nodes' = next_leaf_nodes
    /\ next_leaf_nodes' = <<>>
    /\ gen' = GenStart
    /\ rounds' = rounds + 1
    /\ UNCHANGED <<words, pairs, failed, stdout, stderr, pair_no, pc, start_word,
                   end_word, used_words, outcome, queries>>

\* A slip the raise could hold: the words are handed to format in the other
\* order, format(end_word, start_word).
ExhaustedNamesEndWordFirst ==
    /\ pc = "search"
    /\ next_leaf_nodes = <<>>
    /\ LET a == Advance
       IN  /\ a.kind = "stop"
           /\ gen' = a.gen
           /\ wil' = a.wil
           /\ results_by_args' = a.cache
    /\ outcome' = [kind |-> "ValueError", solution |-> <<>>,
                   args |-> <<end_word, start_word>>]
    /\ pc' = "raised"
    /\ UNCHANGED <<words, pairs, failed, stdout, stderr, pair_no, start_word,
                   end_word, used_words, leaf_nodes, next_leaf_nodes, rounds,
                   queries>>

\* The generator is exhausted and the round kept nothing: ValueError.
Exhausted ==
    /\ pc = "search"
    /\ next_leaf_nodes = <<>>
    /\ LET a == Advance
       IN  /\ a.kind = "stop"
           /\ gen' = a.gen
           /\ wil' = a.wil
           /\ results_by_args' = a.cache
    /\ outcome' = [kind |-> "ValueError", solution |-> <<>>,
                   args |-> <<start_word, end_word>>]
    /\ pc' = "raised"
    /\ UNCHANGED <<words, pairs, failed, stdout, stderr, pair_no, start_word,
                   end_word, used_words, leaf_nodes, next_leaf_nodes, rounds,
                   queries>>

\* find_similar_words raised TypeError: it leaves the generator,
\* find_shortest_solution and main.
Fault ==
    /\ pc = "search"
    /\ LET a == Advance
       IN  /\ a.kind = "error"
           /\ gen' = a.gen
           /\ wil' = a.wil
           /\ results_by_args' = a.cache
    /\ outcome' = [kind |-> "TypeError", solution |-> <<>>, args |-> <<>>]
    /\ pc' = "crashed"
    /\ UNCHANGED <<words, pairs, failed, stdout, stderr, pair_no, start_word,
                   end_word, used_words, leaf_nodes, next_leaf_nodes, rounds,
                   queries>>

\* main's except branch: the message to stderr, -1 to stdout, failed = True.
MainExcept ==
    /\ pc = "raised"
    /\ stderr' = Append(stderr, [text |-> "No solutions", words |-> outcome.args])
    /\ stdout' = Append(stdout, -1)
    /\ failed' = TRUE
    /\ pc' = "main"
    /\ SearchLocalsCleared
    /\ UNCHANGED <<words, pairs, wil, pair_no, results_by_args, queries>>

\* main's else branch: the ladder to stderr, its length to stdout.
MainElse ==
    /\ pc = "returned"
    /\ stderr' = Append(stderr, [text |-> "ladder", words |-> outcome.solution])
    /\ stdout' = Append(stdout, Len(outcome.solution) - 1)
    /\ pc' = "main"
    /\ SearchLocalsCleared
    /\ UNCHANGED <<words, pairs, wil, failed, pair_no, results_by_args, queries>>

\* main returns failed; its locals die, the cache stays.
MainReturn ==
    /\ pc = "main"
    /\ pair_no = Len(pairs)
    /\ words' = {}
    /\ pairs' = <<>>
    /\ wil' = <<>>
    /\ failed' = FALSE
    /\ stdout' = <<>>
    /\ stderr' = <<>>
    /\ pair_no' = 0
    /\ pc' = "idle"
    /\ UNCHANGED <<results_by_args, start_word, end_word, used_words, leaf_nodes,
                   next_leaf_nodes, gen, outcome, rounds, queries>>

\* The inputs of main: a dictionary of words of one length and pairs of words
\* of that length.
MainCall ==
    /\ pc = "idle"
    /\ \E n \in WordLens :
          \E ws \in SUBSET WordsOfLen(n) :
              \E ps \in SeqsUpTo(WordsOfLen(n) \X WordsOfLen(n),
                                 MaxQueries - queries) :
                  Main(ws, ps)

Next ==
    \/ MainCall
    \/ Call
    \/ Keep
    \/ Found
    \/ NextRound
    \/ Exhausted
    \/ Fault
    \/ MainExcept
    \/ MainElse
    \/ MainReturn

Spec == Init /\ [][Next]_vars

-----------------------------------------------------------------------------
(* What the claims speak of: one-letter-substitution adjacency and ladders   *)
(* over a dictionary, stated without the index.                              *)

\* The positions at which two words of one length differ.
DiffPositions(u, v) == {k \in DOMAIN u : u[k] # v[k]}

Adjacent(u, v) == Len(u) = Len(v) /\ Cardinality(DiffPositions(u, v)) = 1

\* The layer after frontier: the words of ws next to a word of frontier and
\* not seen yet.
NextLayer(frontier, seen, ws) ==
    {v \in ws \ seen : \E u \in frontier : Adjacent(u, v)}

\* The least number of steps from a word of frontier (k steps from the start)
\* to end through words of ws, or -1 when there is none.
RECURSIVE StepsFrom(_, _, _, _, _)
StepsFrom(frontier, seen, end, ws, k) ==
    IF end \in frontier THEN k
    ELSE IF NextLayer(frontier, seen, ws) = {} THEN -1
    ELSE StepsFrom(NextLayer(frontier, seen, ws),
                   seen \cup NextLayer(frontier, seen, ws), end, ws, k + 1)

\* The length of the shortest ladder from start to end whose words after the
\* start are in ws, or -1.
Distance(start, end, ws) == StepsFrom({start}, {start}, end, ws, 0)

\* A ladder ends in a dictionary word.
LadderExists(start, end, ws) == end \in ws /\ Distance(start, end, ws) >= 0

\* The state has an index: main built wil from words and has not returned.
HasIndex == pc # "idle"

\* The words that can be asked about on the current index: those of the
\* length of its dictionary.
QueryWords == {w \in AllWords : words \subseteq WordsOfLen(Len(w))}

\* A call of find_shortest_solution has just ended.
CallEnded == pc \in {"returned", "raised", "crashed"}

\* Every entry of the cache is what the body of find_similar_words answers on
\* the current index.
CacheAgreesWithIndex ==
    \A key \in DOMAIN results_by_args :
        key[1] \in QueryWords =>
            results_by_args[key] = FindSimilarWordsBody(key[1], key[2], wil).value

-----------------------------------------------------------------------------
(* The claims.                                                               *)

\* C1: whenever find_shortest_solution(start, end, wil) with start # end, both
\* dictionary words, returns a ladder, its number of steps (words minus 1) is
\* the least number of one-letter steps from start to end through dictionary
\* words.
C1_ReturnedLadderIsShortest ==
    (pc = "returned" /\ start_word # end_word /\ {start_word, end_word} \subseteq words)
        => Len(outcome.solution) - 1 = Distance(start_word, end_word, words)

\* C2: in a ladder that find_shortest_solution returns, every two consecutive
\* words differ in exactly one position and no word appears twice.
C2_LadderStepsAndNoRepeat ==
    pc = "returned" =>
        /\ \A k \in 1..(Len(outcome.solution) - 1) :
               Adjacent(outcome.solution[k], outcome.solution[k + 1])
        /\ \A j, k \in 1..Len(outcome.solution) :
               j # k => outcome.solution[j] # outcome.solution[k]

\* C2, witness: a ladder of two steps was returned.
C2_Witness ==
    /\ pc = "returned"
    /\ Len(outcome.solution) = 3
    /\ outcome.solution[1] = start_word
    /\ outcome.solution[3] = end_word

\* C3: when find_shortest_solution raises ValueError for (start, end), no
\* ladder connects start to end in the dictionary.
C3_RaisedOnlyWithoutLadder ==
    pc = "raised" => ~LadderExists(start_word, end_word, words)

\* C4: for a pair whose start word is its end word, a dictionary word,
\* find_shortest_solution returns the ladder of that one word.
C4_TrivialLadder ==
    (pc \in {"returned", "raised"} /\ start_word = end_word /\ start_word \in words)
        => (outcome.kind = "solution" /\ outcome.solution = <<start_word>>)

\* The answers of find_similar_words and of find_shortest_solution on the
\* current index with the current cache, and with an empty one.
SimilarNow(w, i) == find_similar_words(w, i, wil, results_by_args)

SimilarFresh(w, i) == find_similar_words(w, i, wil, <<>>)

SolutionNow(s, e) == find_shortest_solution(s, e, wil, results_by_args)

SolutionFresh(s, e) == find_shortest_solution(s, e, wil, <<>>)

\* C5: after any earlier queries, also on other dictionaries,
\* find_similar_words(word, i, wil) answers what an uncached evaluation on wil
\* answers, and find_shortest_solution(start, end, wil) ends as on a fresh
\* cache, with a ladder of the same length.
C5_CacheIsTransparent ==
    HasIndex =>
        /\ \A w \in QueryWords : \A i \in 0..(Len(w) - 1) :
               /\ SimilarNow(w, i).raised = SimilarFresh(w, i).raised
               /\ SimilarNow(w, i).value = SimilarFresh(w, i).value
        /\ \A s \in QueryWords : \A e \in WordsOfLen(Len(s)) :
               /\ SolutionNow(s, e).kind = SolutionFresh(s, e).kind
               /\ Len(SolutionNow(s, e).solution) = Len(SolutionFresh(s, e).solution)

\* C6: every call of find_shortest_solution from a dictionary word ends by
\* returning a ladder or by raising ValueError, after at most as many rounds
\* as there are dictionary words.
C6_EndsWithinDictionaryRounds ==
    (CallEnded /\ start_word \in words) =>
        /\ outcome.kind \in {"solution", "ValueError"}
        /\ rounds <= Cardinality(words)

\* C7: for two different words a and b with a ladder between them,
\* find_shortest_solution(a, b, wil) and find_shortest_solution(b, a, wil),
\* called one after the other, return sequences of equal length.  (Stated for
\* words of two letters and more: on one-letter words both calls end in the
\* TypeError of C10.)
C7_ReverseHasEqualLength ==
    HasIndex =>
        \A a \in QueryWords : \A b \in WordsOfLen(Len(a)) \ {a} :
            (Len(a) >= 2 /\ LadderExists(a, b, words) /\ LadderExists(b, a, words)) =>
                LET there == SolutionNow(a, b)
                    back == find_shortest_solution(b, a, there.wil, there.cache)
                IN  /\ there.kind = "solution"
                    /\ back.kind = "solution"
                    /\ Len(there.solution) = Len(back.solution)

\* main has taken every pair and is about to return failed, or was left by an
\* exception.
MainEnded == (pc = "main" /\ pair_no = Len(pairs)) \/ pc = "crashed"

\* Every pair starts from a dictionary word.
PairsStartInDictionary == \A k \in 1..Len(pairs) : pairs[k][1] \in words

\* C8: main writes one line to stdout per pair, in the order of the pairs: the
\* ladder's length where find_shortest_solution returned a ladder for the
\* pair, -1 where it raised ValueError; and failed is true exactly when some
\* pair raised.
C8_OneLinePerPairInOrder ==
    (MainEnded /\ PairsStartInDictionary) =>
        /\ Len(stdout) = Len(pairs)
        /\ Len(stderr) = Len(pairs)
        /\ \A k \in 1..Len(stdout) :
               \/ /\ stderr[k].text = "ladder"
                  /\ stderr[k].words[1] = pairs[k][1]
                  /\ stderr[k].words[Len(stderr[k].words)] = pairs[k][2]
                  /\ stdout[k] = Len(stderr[k].words) - 1
               \/ /\ stderr[k].text = "No solutions"
                  /\ stderr[k].words = pairs[k]
                  /\ stdout[k] = -1
        /\ failed <=> (\E k \in 1..Len(stdout) : stdout[k] = -1)

\* The words of ws that agree with w at every position but i and are not w.
\* (Python's position i is the element i + 1.)
DifferOnlyAt(w, i, ws) ==
    {v \in ws : v # w /\ \A j \in DOMAIN w : j # i + 1 => v[j] = w[j]}

\* C9: for a word w of at least two letters and a position i,
\* find_similar_words(w, i, wil) on a fresh cache returns exactly the
\* dictionary words other than w that agree with w at every position but i.
C9_SimilarWordsOnFreshCache ==
    HasIndex =>
        \A w \in QueryWords : \A i \in 0..(Len(w) - 1) :
            Len(w) >= 2 =>
                /\ ~SimilarFresh(w, i).raised
                /\ SimilarFresh(w, i).value = DifferOnlyAt(w, i, words)
                /\ w \notin SimilarFresh(w, i).value

\* C9, witness: the search has asked, on a fresh cache, for the similar words
\* of a dictionary word that has one, and the answer is in the cache.
C9_Witness ==
    /\ pc = "search"
    /\ queries = 1
    /\ start_word \in words
    /\ Len(start_word) >= 2
    /\ <<start_word, 0>> \in DOMAIN results_by_args
    /\ results_by_args[<<start_word, 0>>] # {}
    /\ results_by_args[<<start_word, 0>>] = DifferOnlyAt(start_word, 0, words)

\* C10: for a dictionary word of one letter find_similar_words returns the
\* empty set and does not raise, so no search over one-letter words ends in a
\* fault.
C10_SingleLetterQueryIsEmpty ==
    /\ HasIndex =>
           \A w \in words :
               Len(w) = 1 =>
                   /\ ~SimilarNow(w, 0).raised
                   /\ SimilarNow(w, 0).value = {}
    /\ start_word \in words => pc # "crashed"

\* main has just built the index: it stands before its first pair.
IndexJustBuilt == pc = "main" /\ pair_no = 0

\* C11: after build_words_by_indexed_letter(W), every word w of W is, for
\* every position i of w, in the set at (i, w[i]) and in no other set of
\* position i; every set at (i, L) holds only words of W with the letter L at
\* position i; and the outer mapping has exactly one entry per position of
\* the words (none for the empty W).
C11_IndexHoldsEachWordOncePerPosition ==
    IndexJustBuilt =>
        /\ \A w \in words : \A i \in 0..(Len(w) - 1) :
               /\ i \in DOMAIN wil
               /\ w[i + 1] \in DOMAIN wil[i]
               /\ w \in wil[i][w[i + 1]]
               /\ \A l \in DOMAIN wil[i] : l # w[i + 1] => w \notin wil[i][l]
        /\ \A i \in DOMAIN wil : \A l \in DOMAIN wil[i] : \A v \in wil[i][l] :
               v \in words /\ i + 1 \in DOMAIN v /\ v[i + 1] = l
        /\ \A w \in words : DOMAIN wil = 0..(Len(w) - 1)
        /\ words = {} => DOMAIN wil = {}

\* C11, witness: an index was built from three words of two letters, so a
\* set of it holds two words and a position has two sets.
C11_Witness ==
    /\ IndexJustBuilt
    /\ Cardinality(words) = 3
    /\ \A w \in words : Len(w) = 2
    /\ \E i \in DOMAIN wil : \E l \in DOMAIN wil[i] : Cardinality(wil[i][l]) = 2
    /\ \E i \in DOMAIN wil : Cardinality(DOMAIN wil[i]) = 2

\* C12: the index is read-only after construction: while main runs its
\* queries, wil stays what build_words_by_indexed_letter answered for the
\* dictionary (no key added or removed, no set altered), also when a query
\* reads a (position, letter) that was never entered, as for a start word
\* outside the dictionary.  (Stated for a dictionary that has words.)
C12_IndexIsReadOnly ==
    (HasIndex /\ words # {}) => wil = build_words_by_indexed_letter(words)

\* C13: every word of a ladder that find_shortest_solution returns is a word
\* of the dictionary the index was built from, whatever queries, on this or
\* on other indexes, came before.  (Stated for a pair of dictionary
\* words.)
C13_LadderWordsAreDictionaryWords ==
    (pc = "returned" /\ {start_word, end_word} \subseteq words) =>
        \A k \in 1..Len(outcome.solution) : outcome.solution[k] \in words

\* The same query as the call that has just ended, on an index built anew
\* from the same dictionary, later in the same process.
SameQueryOnRebuiltIndex ==
    find_shortest_solution(start_word, end_word,
                           build_words_by_indexed_letter(words), results_by_args)

InSearch == pc \in {"search", "returned", "raised", "crashed"}

\* The nodes of the current frontier and those kept in the current round.
TreeNodes == leaf_nodes \o next_leaf_nodes

NodeWords(nodes) == {nodes[k].value : k \in DOMAIN nodes}

NoRepeat(s) == \A j, k \in DOMAIN s : j # k => s[j] # s[k]

\* The words of the nodes a step appends to next_leaf_nodes.
WordsKeptByStep ==
    {next_leaf_nodes'[k].value :
        k \in (Len(next_leaf_nodes) + 1)..Len(next_leaf_nodes')}

\* C15: during one search no two nodes of the frontier and of the round's new
\* nodes carry the same word, and no word stands twice on a node's parent
\* chain; used_words starts as the start word alone, never shrinks, and
\* grows in every step by exactly the words of the nodes the step keeps, none
\* of which was in it before: it is the start word plus the words of all the
\* nodes kept so far.
C15_EachWordKeptOnce ==
    /\ [](InSearch =>
            /\ NoRepeat([k \in DOMAIN TreeNodes |-> TreeNodes[k].value])
            /\ \A k \in DOMAIN TreeNodes :
                   /\ NoRepeat(retrace_solution(TreeNodes[k]))
                   /\ \A j \in DOMAIN retrace_solution(TreeNodes[k]) :
                          retrace_solution(TreeNodes[k])[j] \in used_words
            /\ start_word \in used_words)
    /\ [][(pc = "main" /\ pc' = "search") =>
              /\ used_words' = {start_word'}
              /\ leaf_nodes' = <<Node(start_word', None)>>]_vars
    /\ [][pc = "search" =>
              /\ used_words \subseteq used_words'
              /\ used_words' \ used_words = WordsKeptByStep
              /\ WordsKeptByStep \cap used_words = {}]_vars

\* C15, witness: from aa on the dictionary of all four words of two letters
\* the second round had the frontier ba, ab, both next to bb; bb was kept
\* once, and the third round starts with bb alone.
C15_Witness ==
    /\ pc = "search"
    /\ rounds = 3
    /\ Cardinality(words) = 4
    /\ start_word \in words
    /\ used_words = words
    /\ Len(leaf_nodes) = 1
    /\ CacheAgreesWithIndex

\* A round of the while loop begins: next_leaf_nodes = [] and the generator
\* has not been asked yet.
RoundBegins == pc = "search" /\ next_leaf_nodes = <<>>

\* The words whose least number of steps from start through words of ws is
\* one of ks.
WordsAtDistance(start, ks, ws) ==
    {v \in ws \cup {start} : Distance(start, v, ws) \in ks}

\* C16: at the beginning of round k (the first round is round 0) of a search
\* from a dictionary word, leaf_nodes holds exactly the words at distance k
\* from the start word, the parent chain of each of its nodes has k links, and
\* used_words is exactly the set of the words at distance at most k.
C16_FrontierIsDistanceLayer ==
    (RoundBegins /\ start_word \in words) =>
        /\ NodeWords(leaf_nodes) = WordsAtDistance(start_word, {rounds - 1}, words)
        /\ \A n \in DOMAIN leaf_nodes :
               Len(retrace_solution(leaf_nodes[n])) = rounds
        /\ used_words = WordsAtDistance(start_word, 0..(rounds - 1), words)

\* The node whose value was the end word, when find_shortest_solution has
\* returned: the generator made it from the frontier node it stands at.
TerminalNode == Node(end_word, <<leaf_nodes[gen.n]>>)

\* The words on the parent chain of a node, from the root down to the node.
RECURSIVE ChainFromRoot(_)
ChainFromRoot(node) ==
    IF node.parent = None THEN <<node.value>>
    ELSE Append(ChainFromRoot(node.parent[1]), node.value)

\* The node on the parent chain of node that lies up links above it.
RECURSIVE AncestorOf(_, _)
AncestorOf(node, up) ==
    IF up = 0 THEN node ELSE AncestorOf(node.parent[1], up - 1)

\* C17: when find_shortest_solution returns for a terminal node made in the
\* k-th round of the search (the first round is the one that expands the start
\* node), the tuple is the words of the node's parent chain from the root to
\* the node: it has k + 1 words, the first is the start word, the last is the
\* end word, and each word but the last is the value of the parent of the
\* node of the word after it.
C17_LadderIsParentChain ==
    pc = "returned" =>
        /\ outcome.solution = ChainFromRoot(TerminalNode)
        /\ Len(outcome.solution) = rounds + 1
        /\ outcome.solution[1] = start_word
        /\ outcome.solution[Len(outcome.solution)] = end_word
        /\ \A j \in 1..(Len(outcome.solution) - 1) :
               LET next == AncestorOf(TerminalNode, Len(outcome.solution) - (j + 1))
               IN  /\ next.value = outcome.solution[j + 1]
                   /\ next.parent # None
                   /\ next.parent[1].value = outcome.solution[j]

\* C17, witness: on a cache that agrees with the index a terminal node was
\* made in the second round from a node the first round kept, and the ladder
\* of the three words of its chain was returned.
C17_Witness ==
    /\ pc = "returned"
    /\ CacheAgreesWithIndex
    /\ {start_word, end_word} \subseteq words
    /\ rounds = 2
    /\ TerminalNode.parent[1].parent # None
    /\ outcome.solution = <<start_word, TerminalNode.parent[1].value, end_word>>

\* A round has run to its end, the generator is exhausted, and it kept no
\* node.
RoundEndedEmpty ==
    pc = "search" /\ Advance.kind = "stop" /\ next_leaf_nodes = <<>>

\* C18: find_shortest_solution raises ValueError exactly when a round ran to
\* its end without making a node: from such a state the one step there is
\* raises, no step raises from any other state, and no node of the search
\* carries the end word then; the error names the pair of the query, the
\* start word and then the end word.
C18_RaisesExactlyOnEmptyRound ==
    /\ [][RoundEndedEmpty => pc' = "raised"]_vars
    /\ [][(pc' = "raised" /\ pc # "raised") => RoundEndedEmpty]_vars
    /\ [](pc = "raised" =>
            /\ outcome.kind = "ValueError"
            /\ outcome.args = <<start_word, end_word>>
            /\ outcome.args = pairs[pair_no]
            /\ next_leaf_nodes = <<>>
            /\ end_word \notin used_words \ {start_word})

\* C18, witness: a search from a dictionary word for another word kept a node
\* in its first round and none in its second, and raised.
C18_Witness ==
    /\ pc = "raised"
    /\ CacheAgreesWithIndex
    /\ start_word \in words
    /\ start_word # end_word
    /\ rounds = 2
    /\ outcome.args = <<start_word, end_word>>

-----------------------------------------------------------------------------
(* Where the claims that the cache breaks do hold: as long as every entry of *)
(* the cache is what the body of find_similar_words answers on the current   *)
(* index, which is so while the process has used one dictionary only.        *)

\* With such a cache a returned ladder between two different words is a
\* shortest one, ValueError is raised only when no ladder joins two different
\* words, and the whole call answers as on an empty cache.
OnAgreeingCache_SearchIsBreadthFirst ==
    (CacheAgreesWithIndex /\ CallEnded /\ Len(start_word) >= 2
         /\ start_word # end_word) =>
        /\ outcome.kind \in {"solution", "ValueError"}
        /\ outcome.kind = "solution" =>
               Len(outcome.solution) - 1 = Distance(start_word, end_word, words)
        /\ outcome.kind = "ValueError" => ~LadderExists(start_word, end_word, words)
        /\ outcome.kind = SolutionFresh(start_word, end_word).kind
        /\ Len(outcome.solution) = Len(SolutionFresh(start_word, end_word).solution)

\* With such a cache and every pair starting from a dictionary word, the
\* queries leave the index as it was built.
OnAgreeingCache_IndexIsUnchanged ==
    (HasIndex /\ CacheAgreesWithIndex /\ PairsStartInDictionary) =>
        wil = build_words_by_indexed_letter(words)

\* With such a cache the words of a returned ladder after the start word are
\* dictionary words.
OnAgreeingCache_LadderWordsAreDictionaryWords ==
    (CacheAgreesWithIndex /\ pc = "returned") =>
        \A k \in 2..Len(outcome.solution) : outcome.solution[k] \in words

\* With such a cache the frontier at the beginning of round k is the layer of
\* the words at distance k.
OnAgreeingCache_FrontierIsDistanceLayer ==
    (CacheAgreesWithIndex /\ RoundBegins) =>
        /\ NodeWords(leaf_nodes) = WordsAtDistance(start_word, {rounds - 1}, words)
        /\ \A n \in DOMAIN leaf_nodes :
               Len(retrace_solution(leaf_nodes[n])) = rounds
        /\ used_words = WordsAtDistance(start_word, 0..(rounds - 1), words)

====
